---- MODULE Spec2Model ----
(***************************************************************************)
(* qwertysh (src/main.c): a read / tokenize / dispatch / wait loop.        *)
(*                                                                         *)
(* Characters are their ASCII codes, as getchar() delivers them.  A C      *)
(* string is a sequence of codes; index i of a C array is element i+1 of   *)
(* the TLA+ sequence.  Pointers into the line buffer are 0-based offsets.  *)
(***************************************************************************)
EXTENDS Integers, Sequences, FiniteSets, TLC

(* ------------------------------------------------------------------ *)
(* Bounds of the model                                                 *)
(* ------------------------------------------------------------------ *)
MaxDelimRun == 2   \* longest delimiter-only line typed at the prompt
MaxPids     == 2   \* size of the process table available to fork()
MaxLen      == 4   \* longest line handed to qwertysh_split_line in SpecTok
ExtraLen    == 1   \* how far past a capacity multiple SpecRL lines reach

(* ------------------------------------------------------------------ *)
(* Program constants                                                   *)
(* ------------------------------------------------------------------ *)
qwertysh_RL_BUFSIZE  == 1024
qwertysh_TOK_BUFSIZE == 64
EXIT_SUCCESS == 0
EXIT_FAILURE == 1
EOF  == -1
NUL  == 0
NL   == 10
NULL == -1          \* the null pointer, distinct from every offset

\* the delimiter string without the bell
TOK_DELIM_noBell == {32, 9, 13, 10}

\* " \t\r\n\a"
qwertysh_TOK_DELIM == {32, 9, 13, 10, 7}

\* "cd", "help", "exit", "cls"
builtin_str ==
  << <<99, 100>>, <<104, 101, 108, 112>>, <<101, 120, 105, 116>>, <<99, 108, 115>> >>

\* &qwertysh_cd, &qwertysh_help, &qwertysh_exit, &qwertysh_cls
builtin_func ==
  << "qwertysh_cd", "qwertysh_help", "qwertysh_exit", "qwertysh_cls" >>

qwertysh_num_builtins == Len(builtin_str)

(* ------------------------------------------------------------------ *)
(* The environment: what is typed, the file system, the programs       *)
(* ------------------------------------------------------------------ *)
\* "/", "/a" exist; nothing else does
ExistingDirs == { <<47>>, <<47, 97>> }

\* "ls" is on the search path; nothing else is
Programs == { <<108, 115>> }

\* first words: cd help exit cls CD c cdx ls zz
CmdWords ==
  { <<99, 100>>, <<104, 101, 108, 112>>, <<101, 120, 105, 116>>, <<99, 108, 115>>,
    <<67, 68>>, <<99>>, <<99, 100, 120>>, <<108, 115>>, <<122, 122>> }

\* arguments: "/", "/a", "/x", "a"
ArgWords == { <<47>>, <<47, 97>>, <<47, 120>>, <<97>> }

\* delimiters that can occur inside a line (a newline ends the line)
TypedDelims == {32, 9, 13, 7}

DelimLines == UNION { [1..n -> TypedDelims] : n \in 0..MaxDelimRun }

CmdLines ==
  { pre \o w \o post : pre \in {<<>>, <<32>>}, w \in CmdWords, post \in {<<>>, <<9>>} }
  \cup
  { w \o sep \o a : w \in CmdWords, sep \in {<<32>>, <<32, 7>>}, a \in ArgWords }

InputLines == DelimLines \cup CmdLines

Pids == 1..MaxPids

(* ------------------------------------------------------------------ *)
(* Wait statuses, encoded as the C library encodes them                *)
(* ------------------------------------------------------------------ *)
W_EXITCODE(ret, sig) == ret * 256 + sig
W_STOPCODE(sig)      == sig * 256 + 127
WTERMSIG(s)          == s % 128
WIFEXITED(s)         == WTERMSIG(s) = 0
WIFSIGNALED(s)       == WTERMSIG(s) \in 1..126
WIFSTOPPED(s)        == s % 256 = 127

ExitCodes == {0, 1, 3}
KillSigs  == {9}
StopSigs  == {19}

\* what the uninitialized local `status` of qwertysh_launch may hold:
\* an exited pattern, a signaled pattern, a stopped pattern, and 0xffff
IndeterminateStatus == {0, 9, 4991, 65535}

\* what a call of qwertysh_cls may hand back: it has no return statement
ClsReturns == {0, 1, 4}

VARIABLES
  pc,            \* where the interpreter process is
  typed,         \* the characters typed on stdin for the current line
  inpos,         \* how many of them getchar() has delivered
  eof,           \* TRUE when the stream ends after `typed` instead of a newline
  buffer,        \* read_line: the line storage (cells written so far)
  rl_bufsize,    \* read_line: bufsize
  rl_position,   \* read_line: position
  lineAlloc,     \* number of live heap blocks holding the Command Line
  tokens,        \* split_line: the token array (cells written so far)
  sl_bufsize,    \* split_line: bufsize
  sl_position,   \* split_line: position
  token,         \* split_line: token
  saveptr,       \* strtok's saved position
  argsAlloc,     \* number of live heap blocks holding the Token List
  oob,           \* TRUE once a write landed at or beyond a block's capacity
  status,        \* qwertysh_loop: status
  invoked,       \* what the last qwertysh_execute called
  lastWrite,     \* what the last step wrote to stdout / stderr
  cwd,           \* the interpreter's working directory
  children,      \* pid -> child process created by fork() and not yet reaped
  pid,           \* qwertysh_launch: pid
  wstatus,       \* qwertysh_launch: status
  statusSet,     \* qwertysh_launch: a waitpid call has stored into status
  sigchldIgnored,\* SIGCHLD disposition inherited at startup is SIG_IGN
  exitCode       \* exit status of the interpreter process, NULL while it runs

vars == << pc, typed, inpos, eof, buffer, rl_bufsize, rl_position, lineAlloc,
           tokens, sl_bufsize, sl_position, token, saveptr, argsAlloc, oob,
           status, invoked, lastWrite, cwd, children, pid, wstatus,
           statusSet, sigchldIgnored, exitCode >>

envVars   == << typed, inpos, eof >>
rlVars    == << buffer, rl_bufsize, rl_position, lineAlloc >>
slVars    == << tokens, sl_bufsize, sl_position, token, saveptr, argsAlloc >>
procVars  == << children, pid, wstatus, statusSet >>

(* ------------------------------------------------------------------ *)
(* Helpers over C arrays                                               *)
(* ------------------------------------------------------------------ *)
At(buf, i) == buf[i + 1]

\* buf[idx] = val in a block of capacity cap
Store(buf, idx, val) ==
  IF idx < Len(buf) THEN [buf EXCEPT ![idx + 1] = val] ELSE Append(buf, val)

InBounds(idx, cap) == idx < cap

\* the C string starting at offset off of buf
RECURSIVE CStr(_, _)
CStr(buf, off) ==
  IF off >= Len(buf) \/ At(buf, off) = NUL THEN <<>>
  ELSE <<At(buf, off)>> \o CStr(buf, off + 1)

\* compares only as far as the shorter string reaches
RECURSIVE strcmp_prefix(_, _)
strcmp_prefix(s1, s2) ==
  IF s1 = <<>> \/ s2 = <<>> THEN 0
  ELSE IF Head(s1) # Head(s2) THEN Head(s1) - Head(s2)
  ELSE strcmp_prefix(Tail(s1), Tail(s2))

RECURSIVE strcmp(_, _)
strcmp(s1, s2) ==
  IF s1 = <<>> /\ s2 = <<>> THEN 0
  ELSE IF s1 = <<>> THEN 0 - Head(s2)
  ELSE IF s2 = <<>> THEN Head(s1)
  ELSE IF Head(s1) # Head(s2) THEN Head(s1) - Head(s2)
  ELSE strcmp(Tail(s1), Tail(s2))

Init ==
  /\ pc = "prompt"
  /\ typed = <<>> /\ inpos = 0 /\ eof = FALSE
  /\ buffer = <<>> /\ rl_bufsize = 0 /\ rl_position = 0 /\ lineAlloc = 0
  /\ tokens = <<>> /\ sl_bufsize = 0 /\ sl_position = 0 /\ token = NULL
  /\ saveptr = NULL /\ argsAlloc = 0
  /\ oob = FALSE
  /\ status = 1
  /\ invoked = "none"
  /\ lastWrite = "cls"
  /\ cwd \in ExistingDirs
  /\ children = <<>>
  /\ pid = 0 /\ wstatus = 0 /\ statusSet = FALSE
  /\ sigchldIgnored \in BOOLEAN
  /\ exitCode = NULL

(* ------------------------------------------------------------------ *)
(* qwertysh_loop: printf("QWERTYSH> ")                                 *)
(* ------------------------------------------------------------------ *)
Prompt ==
  /\ pc = "prompt"
  /\ lastWrite' = "prompt"
  /\ IF eof
       THEN typed' = <<>> /\ eof' = TRUE
       ELSE \E l \in InputLines, e \in BOOLEAN : typed' = l /\ eof' = e
  /\ inpos' = 0
  /\ pc' = "rl_malloc"
  /\ UNCHANGED << rlVars, slVars, procVars, oob, status, invoked, cwd,
                  sigchldIgnored, exitCode >>

(* ------------------------------------------------------------------ *)
(* qwertysh_read_line                                                  *)
(* ------------------------------------------------------------------ *)
\* the diagnostic without the exit: the loop goes on to the next prompt
AllocationError_continues ==
  /\ lastWrite' = "allocation error"
  /\ exitCode' = exitCode
  /\ pc' = "prompt"

\* exit(EXIT_FAILURE) after "qwertysh: allocation error"
AllocationError ==
  /\ lastWrite' = "allocation error"
  /\ exitCode' = EXIT_FAILURE
  /\ pc' = "terminated"

\* lines 157-165: the initial malloc
RL_malloc ==
  /\ pc = "rl_malloc"
  /\ rl_bufsize' = qwertysh_RL_BUFSIZE
  /\ rl_position' = 0
  /\ \E ok \in BOOLEAN :
       IF ok
         THEN /\ buffer' = <<>> /\ lineAlloc' = lineAlloc + 1
              /\ pc' = "rl_loop"
              /\ UNCHANGED << lastWrite, exitCode >>
         ELSE /\ AllocationError
              /\ UNCHANGED << buffer, lineAlloc >>
  /\ UNCHANGED << envVars, slVars, procVars, oob, status, invoked, cwd,
                  sigchldIgnored >>

\* c = getchar()
getchar == IF inpos < Len(typed) THEN typed[inpos + 1] ELSE IF eof THEN EOF ELSE NL

\* the growth test off by one
RL_exceeded_late(position, bufsize) == position > bufsize

\* line 181: if (position >= bufsize)
RL_exceeded(position, bufsize) == position >= bufsize

\* lines 167-189: one pass of the while (1) loop
RL_loop ==
  /\ pc = "rl_loop"
  /\ LET c == getchar IN
     /\ inpos' = IF inpos < Len(typed) THEN inpos + 1 ELSE inpos
     /\ oob' = (oob \/ ~InBounds(rl_position, rl_bufsize))
     /\ IF c = EOF \/ c = NL
          THEN /\ buffer' = Store(buffer, rl_position, NUL)
               /\ pc' = "sl_malloc"
               /\ UNCHANGED << rl_position, rl_bufsize, lineAlloc, lastWrite, exitCode >>
          ELSE /\ buffer' = Store(buffer, rl_position, c)
               /\ rl_position' = rl_position + 1
               /\ IF RL_exceeded(rl_position + 1, rl_bufsize)
                    THEN /\ rl_bufsize' = rl_bufsize + qwertysh_RL_BUFSIZE
                         /\ \E ok \in BOOLEAN :
                              IF ok THEN /\ pc' = "rl_loop"
                                         /\ UNCHANGED << lastWrite, exitCode >>
                                    ELSE AllocationError
                    ELSE /\ pc' = "rl_loop"
                         /\ UNCHANGED << rl_bufsize, lastWrite, exitCode >>
               /\ UNCHANGED lineAlloc
  /\ UNCHANGED << typed, eof, slVars, procVars, status, invoked, cwd,
                  sigchldIgnored >>

NextRL == RL_malloc \/ RL_loop

(* ------------------------------------------------------------------ *)
(* strtok, as the C library defines it, on the line buffer             *)
(* ------------------------------------------------------------------ *)
\* reading past the written cells never happens below oob = FALSE
CharAt(buf, i) == IF i < Len(buf) THEN At(buf, i) ELSE NUL

IsDelim(c) == c \in qwertysh_TOK_DELIM

\* no leading delimiter is skipped
SkipDelims_none(buf, s) == s

\* s + strspn(s, delim)
SkipDelims(buf, s) ==
  CHOOSE i \in s..Len(buf) :
    /\ ~IsDelim(CharAt(buf, i))
    /\ \A j \in s..(i - 1) : IsDelim(CharAt(buf, j))

\* s + strcspn(s, delim)
ScanToken(buf, s) ==
  CHOOSE i \in s..Len(buf) :
    /\ IsDelim(CharAt(buf, i)) \/ CharAt(buf, i) = NUL
    /\ \A j \in s..(i - 1) : ~IsDelim(CharAt(buf, j)) /\ CharAt(buf, j) # NUL

\* strtok continuing (or starting) at offset s of buf
strtok(buf, s) ==
  LET b == SkipDelims(buf, s) IN
  IF CharAt(buf, b) = NUL
    THEN [token |-> NULL, buffer |-> buf, saveptr |-> b]
    ELSE LET e == ScanToken(buf, b) IN
         IF CharAt(buf, e) = NUL
           THEN [token |-> b, buffer |-> buf, saveptr |-> e]
           ELSE [token |-> b, buffer |-> Store(buf, e, NUL), saveptr |-> e + 1]

(* ------------------------------------------------------------------ *)
(* qwertysh_split_line                                                 *)
(* ------------------------------------------------------------------ *)
\* lines 201-210: the initial malloc and strtok(line, delim)
SL_malloc ==
  /\ pc = "sl_malloc"
  /\ sl_bufsize' = qwertysh_TOK_BUFSIZE
  /\ sl_position' = 0
  /\ \E ok \in BOOLEAN :
       IF ok
         THEN /\ tokens' = <<>> /\ argsAlloc' = argsAlloc + 1
              /\ LET r == strtok(buffer, 0) IN
                   /\ token' = r.token
                   /\ buffer' = r.buffer
                   /\ saveptr' = r.saveptr
              /\ pc' = "sl_loop"
              /\ UNCHANGED << lastWrite, exitCode >>
         ELSE /\ AllocationError
              /\ UNCHANGED << tokens, argsAlloc, token, buffer, saveptr >>
  /\ UNCHANGED << envVars, rl_bufsize, rl_position, lineAlloc, procVars, oob,
                  status, invoked, cwd, sigchldIgnored >>

\* the growth test off by one
SL_exceeded_late(position, bufsize) == position > bufsize

\* line 215: if (position >= bufsize)
SL_exceeded(position, bufsize) == position >= bufsize

\* lines 211-227: one pass of the while (token != NULL) loop
SL_store ==
  /\ pc = "sl_loop"
  /\ token # NULL
  /\ tokens' = Store(tokens, sl_position, token)
  /\ oob' = (oob \/ ~InBounds(sl_position, sl_bufsize))
  /\ sl_position' = sl_position + 1
  /\ \E ok \in BOOLEAN :
       IF SL_exceeded(sl_position + 1, sl_bufsize) /\ ~ok
         THEN \* free(tokens_backup); exit(EXIT_FAILURE)
              /\ sl_bufsize' = sl_bufsize + qwertysh_TOK_BUFSIZE
              /\ argsAlloc' = argsAlloc - 1
              /\ AllocationError
              /\ UNCHANGED << token, buffer, saveptr >>
         ELSE /\ sl_bufsize' = IF SL_exceeded(sl_position + 1, sl_bufsize)
                                 THEN sl_bufsize + qwertysh_TOK_BUFSIZE
                                 ELSE sl_bufsize
              /\ LET r == strtok(buffer, saveptr) IN
                   /\ token' = r.token
                   /\ buffer' = r.buffer
                   /\ saveptr' = r.saveptr
              /\ pc' = "sl_loop"
              /\ UNCHANGED << argsAlloc, lastWrite, exitCode >>
  /\ UNCHANGED << envVars, rl_bufsize, rl_position, lineAlloc, procVars,
                  status, invoked, cwd, sigchldIgnored >>

\* lines 228-229: tokens[position] = NULL; return tokens
SL_return ==
  /\ pc = "sl_loop"
  /\ token = NULL
  /\ tokens' = Store(tokens, sl_position, NULL)
  /\ oob' = (oob \/ ~InBounds(sl_position, sl_bufsize))
  /\ pc' = "execute"
  /\ UNCHANGED << envVars, rlVars, sl_bufsize, sl_position, token, saveptr,
                  argsAlloc, procVars, status, invoked, lastWrite, cwd,
                  sigchldIgnored, exitCode >>

NextTok == SL_malloc \/ SL_store \/ SL_return

(* ------------------------------------------------------------------ *)
(* Built-ins                                                           *)
(* ------------------------------------------------------------------ *)
\* args[k] and the string it points to
Arg(k)    == At(tokens, k)
ArgStr(k) == CStr(buffer, Arg(k))

\* chdir(path) of a process whose working directory is dir
chdir(dir, path) ==
  LET target == IF Head(path) = 47 THEN path
                ELSE IF dir = <<47>> THEN dir \o path
                ELSE dir \o <<47>> \o path
  IN IF target \in ExistingDirs
       THEN [ret |-> 0, cwd |-> target]
       ELSE [ret |-> -1, cwd |-> dir]

\* cd without an argument goes to the root directory
qwertysh_cd_defaultsToRoot ==
  /\ IF Arg(1) = NULL
       THEN /\ cwd' = <<47>>
            /\ UNCHANGED lastWrite
       ELSE LET r == chdir(cwd, ArgStr(1)) IN
            /\ cwd' = r.cwd
            /\ lastWrite' = IF r.ret # 0 THEN "perror" ELSE lastWrite
  /\ status' = 1

\* a missing or bad directory stops the loop
qwertysh_cd_stopsOnError ==
  /\ IF Arg(1) = NULL
       THEN /\ lastWrite' = "expected argument to cd"
            /\ cwd' = cwd
            /\ status' = 0
       ELSE LET r == chdir(cwd, ArgStr(1)) IN
            /\ cwd' = r.cwd
            /\ lastWrite' = IF r.ret # 0 THEN "perror" ELSE lastWrite
            /\ status' = IF r.ret # 0 THEN 0 ELSE 1

qwertysh_cd ==
  /\ IF Arg(1) = NULL
       THEN /\ lastWrite' = "expected argument to cd"
            /\ cwd' = cwd
       ELSE LET r == chdir(cwd, ArgStr(1)) IN
            /\ cwd' = r.cwd
            /\ lastWrite' = IF r.ret # 0 THEN "perror" ELSE lastWrite
  /\ status' = 1

qwertysh_help ==
  /\ lastWrite' = "help"
  /\ cwd' = cwd
  /\ status' = 1

qwertysh_exit ==
  /\ UNCHANGED << lastWrite, cwd >>
  /\ status' = 0

\* no return statement: the caller reads a value nothing has set
qwertysh_cls ==
  /\ lastWrite' = "cls"
  /\ cwd' = cwd
  /\ \E r \in ClsReturns : status' = r

(* ------------------------------------------------------------------ *)
(* qwertysh_execute                                                    *)
(* ------------------------------------------------------------------ *)
\* lines 141-145: index of the first table entry equal to s, 0 when none is
BuiltinIndex(s) ==
  LET hits == { i \in 1..qwertysh_num_builtins : strcmp(s, builtin_str[i]) = 0 }
  IN IF hits = {} THEN 0 ELSE CHOOSE i \in hits : \A j \in hits : i <= j

\* lines 136-139
Execute_empty ==
  /\ pc = "execute"
  /\ Arg(0) = NULL
  /\ status' = 1
  /\ invoked' = "none"
  /\ pc' = "free_line"
  /\ UNCHANGED << envVars, rlVars, slVars, procVars, oob, lastWrite, cwd,
                  sigchldIgnored, exitCode >>

\* line 143: return (*builtin_func[i])(args)
Execute_builtin ==
  /\ pc = "execute"
  /\ Arg(0) # NULL
  /\ LET i == BuiltinIndex(ArgStr(0)) IN
       /\ i # 0
       /\ invoked' = builtin_func[i]
       /\ CASE builtin_func[i] = "qwertysh_cd"   -> qwertysh_cd
            [] builtin_func[i] = "qwertysh_help" -> qwertysh_help
            [] builtin_func[i] = "qwertysh_exit" -> qwertysh_exit
            [] builtin_func[i] = "qwertysh_cls"  -> qwertysh_cls
  /\ pc' = "free_line"
  /\ UNCHANGED << envVars, rlVars, slVars, procVars, oob, sigchldIgnored,
                  exitCode >>

(* ------------------------------------------------------------------ *)
(* qwertysh_launch and the processes it creates                        *)
(* ------------------------------------------------------------------ *)
Alive(p) == p \in DOMAIN children /\ children[p].st # "zombie"

\* the process table after child p ended with wait status ws
Ended(p, ws) ==
  IF sigchldIgnored
    THEN [q \in DOMAIN children \ {p} |-> children[q]]
    ELSE [children EXCEPT ![p] = [@ EXCEPT !.st = "zombie", !.stop = "no", !.ws = ws]]

\* the child's fate decides the signal
LaunchReturn_childStatus(s) == IF WIFEXITED(s) /\ s = 0 THEN 1 ELSE 0

\* line 124: return 1
LaunchReturn(s) == 1

\* the failure of fork goes unnoticed
ForkFailed_never(r) == FALSE

\* line 114: else if (pid < 0)
ForkFailed(r) == r < 0

\* line 107 and lines 114-116: pid = fork()
Launch_fork ==
  /\ pc = "execute"
  /\ Arg(0) # NULL
  /\ BuiltinIndex(ArgStr(0)) = 0
  /\ invoked' = "qwertysh_launch"
  /\ statusSet' = FALSE
  /\ \E r \in {-1} \cup (Pids \ DOMAIN children) :
       /\ pid' = r
       /\ children' = IF r > 0
                        THEN (r :> [st |-> "forked", stop |-> "no", ws |-> 0,
                                    prog |-> ArgStr(0), cwd |-> cwd]) @@ children
                        ELSE children
       /\ IF ForkFailed(r)
            THEN \* lines 114-116: perror, then return 1
                 /\ lastWrite' = "perror"
                 /\ status' = LaunchReturn(wstatus)
                 /\ pc' = "free_line"
                 /\ UNCHANGED wstatus
            ELSE \* lines 117-122: the parent goes on to wait
                 /\ \E g \in IndeterminateStatus : wstatus' = g
                 /\ pc' = "waitpid"
                 /\ UNCHANGED << lastWrite, status >>
  /\ UNCHANGED << envVars, rlVars, slVars, oob, cwd, sigchldIgnored, exitCode >>

\* the loop leaves as soon as waitpid reports a stop
WaitAgain_leavesOnStop(s) == ~WIFEXITED(s) /\ ~WIFSIGNALED(s) /\ ~WIFSTOPPED(s)

\* a single waitpid, no loop
WaitAgain_never(s) == FALSE

\* line 121: while (!WIFEXITED(status) && !WIFSIGNALED(status))
WaitAgain(s) == ~WIFEXITED(s) /\ ~WIFSIGNALED(s)

\* lines 119-124: one pass of the do-while loop, from the return of waitpid
Launch_wait ==
  /\ pc = "waitpid"
  /\ \/ \* the child has ended and is reaped
        /\ pid \in DOMAIN children
        /\ children[pid].st = "zombie"
        /\ wstatus' = children[pid].ws
        /\ statusSet' = TRUE
        /\ children' = [q \in DOMAIN children \ {pid} |-> children[q]]
     \/ \* WUNTRACED: the child has stopped
        /\ pid \in DOMAIN children
        /\ children[pid].stop = "stopped"
        /\ wstatus' = W_STOPCODE(CHOOSE sig \in StopSigs : TRUE)
        /\ statusSet' = TRUE
        /\ children' = [children EXCEPT ![pid].stop = "reported"]
     \/ \* ECHILD: waitpid fails and writes no status
        /\ pid \notin DOMAIN children
        /\ UNCHANGED << wstatus, statusSet, children >>
  /\ IF WaitAgain(wstatus')
       THEN pc' = "waitpid" /\ UNCHANGED status
       ELSE pc' = "free_line" /\ status' = LaunchReturn(wstatus')
  /\ UNCHANGED << envVars, rlVars, slVars, oob, invoked, lastWrite, cwd, pid,
                  sigchldIgnored, exitCode >>

\* no exit after perror: the child returns from qwertysh_launch into the loop
ExecFailed_fallsThrough(p) == [children EXCEPT ![p].st = "loop"]

\* line 113 in the child: exit(EXIT_FAILURE)
ExecFailed(p) == Ended(p, W_EXITCODE(EXIT_FAILURE, 0))

\* lines 108-113 in the child: execvp, and on failure perror and exit
Child_exec ==
  /\ \E p \in DOMAIN children :
       /\ children[p].st = "forked"
       /\ children[p].stop = "no"
       /\ IF children[p].prog \in Programs
            THEN /\ children' = [children EXCEPT ![p].st = "image"]
                 /\ UNCHANGED lastWrite
            ELSE /\ lastWrite' = "perror"
                 /\ children' = ExecFailed(p)
  /\ UNCHANGED << pc, envVars, rlVars, slVars, oob, status, invoked, cwd, pid,
                  wstatus, statusSet, sigchldIgnored, exitCode >>

\* the launched program exits
Child_exit ==
  /\ \E p \in DOMAIN children, code \in ExitCodes :
       /\ children[p].st = "image"
       /\ children[p].stop = "no"
       /\ children' = Ended(p, W_EXITCODE(code, 0))
  /\ UNCHANGED << pc, envVars, rlVars, slVars, oob, status, invoked, lastWrite,
                  cwd, pid, wstatus, statusSet, sigchldIgnored, exitCode >>

\* the child is killed by a signal
Child_signal ==
  /\ \E p \in DOMAIN children, sig \in KillSigs :
       /\ Alive(p)
       /\ children' = Ended(p, W_EXITCODE(0, sig))
  /\ UNCHANGED << pc, envVars, rlVars, slVars, oob, status, invoked, lastWrite,
                  cwd, pid, wstatus, statusSet, sigchldIgnored, exitCode >>

\* the child is stopped, or continued
Child_stop ==
  /\ \E p \in DOMAIN children :
       /\ Alive(p)
       /\ children' = [children EXCEPT ![p].stop =
                         IF @ = "no" THEN "stopped" ELSE "no"]
  /\ UNCHANGED << pc, envVars, rlVars, slVars, oob, status, invoked, lastWrite,
                  cwd, pid, wstatus, statusSet, sigchldIgnored, exitCode >>

\* the launched program changes its own working directory
Child_chdir ==
  /\ \E p \in DOMAIN children, d \in ExistingDirs :
       /\ children[p].st = "image"
       /\ children[p].stop = "no"
       /\ children[p].cwd # d
       /\ children' = [children EXCEPT ![p].cwd = d]
  /\ UNCHANGED << pc, envVars, rlVars, slVars, oob, status, invoked, lastWrite,
                  cwd, pid, wstatus, statusSet, sigchldIgnored, exitCode >>

(* ------------------------------------------------------------------ *)
(* qwertysh_loop: the end of an iteration, and main                    *)
(* ------------------------------------------------------------------ *)
\* free(line) left out
Free_line_skipped ==
  /\ pc = "free_line"
  /\ pc' = "free_args"
  /\ UNCHANGED << envVars, rlVars, slVars, procVars, oob,
                  status, invoked, lastWrite, cwd, sigchldIgnored, exitCode >>

\* line 247: free(line)
Free_line ==
  /\ pc = "free_line"
  /\ lineAlloc' = lineAlloc - 1
  /\ buffer' = <<>>
  /\ pc' = "free_args"
  /\ UNCHANGED << envVars, rl_bufsize, rl_position, slVars, procVars, oob,
                  status, invoked, lastWrite, cwd, sigchldIgnored, exitCode >>

\* free(args) left out
Free_args_leak ==
  /\ pc = "free_args"
  /\ rl_bufsize' = 0 /\ rl_position' = 0
  /\ sl_bufsize' = 0 /\ sl_position' = 0 /\ token' = NULL
  /\ pid' = 0 /\ wstatus' = 0 /\ statusSet' = FALSE
  /\ pc' = IF status # 0 THEN "prompt" ELSE "returned"
  /\ UNCHANGED << envVars, buffer, lineAlloc, tokens, argsAlloc, saveptr,
                  children, oob, status, invoked, lastWrite, cwd,
                  sigchldIgnored, exitCode >>

\* lines 248-249: free(args); while (status).  The locals of the functions
\* that have returned no longer exist.
Free_args ==
  /\ pc = "free_args"
  /\ argsAlloc' = argsAlloc - 1
  /\ tokens' = <<>>
  /\ rl_bufsize' = 0 /\ rl_position' = 0
  /\ sl_bufsize' = 0 /\ sl_position' = 0 /\ token' = NULL
  /\ pid' = 0 /\ wstatus' = 0 /\ statusSet' = FALSE
  /\ pc' = IF status # 0 THEN "prompt" ELSE "returned"
  /\ UNCHANGED << envVars, buffer, lineAlloc, saveptr, children, oob, status,
                  invoked, lastWrite, cwd, sigchldIgnored, exitCode >>

\* main hands back a failure status
Main_return_failure ==
  /\ pc = "returned"
  /\ exitCode' = EXIT_FAILURE
  /\ pc' = "terminated"
  /\ UNCHANGED << envVars, rlVars, slVars, procVars, oob, status, invoked,
                  lastWrite, cwd, sigchldIgnored >>

\* lines 263-267: qwertysh_loop has returned; return EXIT_SUCCESS
Main_return ==
  /\ pc = "returned"
  /\ exitCode' = EXIT_SUCCESS
  /\ pc' = "terminated"
  /\ UNCHANGED << envVars, rlVars, slVars, procVars, oob, status, invoked,
                  lastWrite, cwd, sigchldIgnored >>

Next ==
  \/ Prompt
  \/ RL_malloc \/ RL_loop
  \/ SL_malloc \/ SL_store \/ SL_return
  \/ Execute_empty \/ Execute_builtin
  \/ Launch_fork \/ Launch_wait
  \/ Child_exec \/ Child_exit \/ Child_signal \/ Child_stop \/ Child_chdir
  \/ Free_line \/ Free_args
  \/ Main_return

Spec == Init /\ [][Next]_vars

(* ------------------------------------------------------------------ *)
(* qwertysh_read_line alone, on lines around the capacity multiples    *)
(* ------------------------------------------------------------------ *)
RLLengths ==
  {0, 1} \cup UNION { (k * qwertysh_RL_BUFSIZE - 1)..(k * qwertysh_RL_BUFSIZE + ExtraLen)
                      : k \in 1..2 }

\* a line of n printable characters, none of them a newline
PatternLine(n) == [i \in 1..n |-> 32 + (i % 95)]

InitRL ==
  /\ pc = "rl_malloc"
  /\ \E n \in RLLengths : typed = PatternLine(n)
  /\ inpos = 0 /\ eof \in BOOLEAN
  /\ buffer = <<>> /\ rl_bufsize = 0 /\ rl_position = 0 /\ lineAlloc = 0
  /\ tokens = <<>> /\ sl_bufsize = 0 /\ sl_position = 0 /\ token = NULL
  /\ saveptr = NULL /\ argsAlloc = 0
  /\ oob = FALSE
  /\ status = 1
  /\ invoked = "none"
  /\ lastWrite = "prompt"
  /\ cwd = <<47>>
  /\ children = <<>>
  /\ pid = 0 /\ wstatus = 0 /\ statusSet = FALSE
  /\ sigchldIgnored = FALSE
  /\ exitCode = NULL

SpecRL == InitRL /\ [][NextRL]_vars

(* ------------------------------------------------------------------ *)
(* qwertysh_split_line alone, on every short line                      *)
(* ------------------------------------------------------------------ *)
\* 'a', 'b' and the five delimiters
TokAlphabet == {97, 98, 32, 9, 13, 10, 7}

\* "echo  hello   world"
EchoLine ==
  << 101, 99, 104, 111, 32, 32, 104, 101, 108, 108, 111, 32, 32, 32,
     119, 111, 114, 108, 100 >>

TokLines == UNION { [1..n -> TokAlphabet] : n \in 0..MaxLen } \cup {EchoLine}

InitTok ==
  /\ pc = "sl_malloc"
  /\ typed \in TokLines
  /\ inpos = Len(typed) /\ eof = FALSE
  /\ buffer = typed \o <<NUL>>
  /\ rl_bufsize = qwertysh_RL_BUFSIZE /\ rl_position = Len(typed) /\ lineAlloc = 1
  /\ tokens = <<>> /\ sl_bufsize = 0 /\ sl_position = 0 /\ token = NULL
  /\ saveptr = NULL /\ argsAlloc = 0
  /\ oob = FALSE
  /\ status = 1
  /\ invoked = "none"
  /\ lastWrite = "prompt"
  /\ cwd = <<47>>
  /\ children = <<>>
  /\ pid = 0 /\ wstatus = 0 /\ statusSet = FALSE
  /\ sigchldIgnored = FALSE
  /\ exitCode = NULL

SpecTok == InitTok /\ [][NextTok]_vars

(* ------------------------------------------------------------------ *)
(* The interpreter started on a line of many tokens                    *)
(* ------------------------------------------------------------------ *)
\* numbers of tokens around the multiples of the token capacity, and one
\* that makes the line longer than the line capacity
TokenCounts ==
  UNION { (k * qwertysh_TOK_BUFSIZE - 1)..(k * qwertysh_TOK_BUFSIZE + ExtraLen)
          : k \in 1..2 }
  \cup { (qwertysh_RL_BUFSIZE \div 2) + 1 }

\* "a a a ... a": n one-character tokens, one space between two of them
TokenLine(n) == [i \in 1..(2 * n - 1) |-> IF i % 2 = 1 THEN 97 ELSE 32]

InitLong ==
  /\ pc = "rl_malloc"
  /\ \E n \in TokenCounts : typed = TokenLine(n)
  /\ inpos = 0 /\ eof \in BOOLEAN
  /\ buffer = <<>> /\ rl_bufsize = 0 /\ rl_position = 0 /\ lineAlloc = 0
  /\ tokens = <<>> /\ sl_bufsize = 0 /\ sl_position = 0 /\ token = NULL
  /\ saveptr = NULL /\ argsAlloc = 0
  /\ oob = FALSE
  /\ status = 1
  /\ invoked = "none"
  /\ lastWrite = "prompt"
  /\ cwd = <<47>>
  /\ children = <<>>
  /\ pid = 0 /\ wstatus = 0 /\ statusSet = FALSE
  /\ sigchldIgnored = FALSE
  /\ exitCode = NULL

SpecLong == InitLong /\ [][Next]_vars

(* ================================================================== *)
(* Properties                                                          *)
(* ================================================================== *)
DelimChars == {32, 9, 13, 10, 7}

OnlyDelims(l) == \A i \in 1..Len(l) : l[i] \in DelimChars

NameCd   == <<99, 100>>
NameHelp == <<104, 101, 108, 112>>
NameExit == <<101, 120, 105, 116>>
NameCls  == <<99, 108, 115>>

\* the built-in a first token names, "" when it names none
BuiltinNamed(first) ==
  IF first = NameCd THEN "qwertysh_cd"
  ELSE IF first = NameHelp THEN "qwertysh_help"
  ELSE IF first = NameExit THEN "qwertysh_exit"
  ELSE IF first = NameCls THEN "qwertysh_cls"
  ELSE ""

\* qwertysh_execute has run on the tokens of this iteration, which are
\* still allocated
Dispatched == pc \in {"free_line", "waitpid"}

AliveChildren == { p \in DOMAIN children : Alive(p) }

\* C1: a command whose first token is "exit" is the only input that ends
\* the loop: the signal qwertysh_execute hands back is zero exactly when the
\* first token is "exit", and the loop is only ever left after qwertysh_exit.
C1_OnlyExitTerminates ==
  /\ pc = "free_line" =>
       (status = 0 <=> (Arg(0) # NULL /\ ArgStr(0) = NameExit))
  /\ pc = "returned" => invoked = "qwertysh_exit"

\* C2: once fork has succeeded, qwertysh_launch has returned in the parent
\* only if the child is no longer alive and the status it returned on is
\* not a stopped one (a stop report makes it wait again).
C2_ReturnsOnlyAfterChildEnded ==
  (pc = "free_line" /\ invoked = "qwertysh_launch" /\ pid > 0) =>
    /\ ~Alive(pid)
    /\ ~WIFSTOPPED(wstatus)

\* C2 witness: the parent is waiting again after a stop of its child was
\* reported to it.
C2_WaitingAgainAfterStop ==
  /\ pc = "waitpid"
  /\ pid \in DOMAIN children
  /\ children[pid].stop = "reported"
  /\ WIFSTOPPED(wstatus)

\* C3: at most one launched child is alive, and none is alive while the
\* interpreter prints a prompt or reads the next line.
C3_OneChildNoOverlap ==
  /\ Cardinality(AliveChildren) <= 1
  /\ pc \in {"prompt", "rl_malloc", "rl_loop"} => AliveChildren = {}

\* C3 witness: the interpreter reads the next line after a launch, with no
\* child left in the process table.
C3_ReadingAfterLaunch ==
  /\ pc = "rl_loop"
  /\ inpos > 0
  /\ invoked = "qwertysh_launch"
  /\ children = <<>>

C5_ExactBuiltinDispatch ==
  (Dispatched /\ Arg(0) # NULL) =>
    LET b == BuiltinNamed(ArgStr(0)) IN
    IF b # ""
      THEN invoked = b /\ pid = 0 /\ children = <<>>
      ELSE invoked = "qwertysh_launch"

\* C5 witness: "cls" with an argument has been dispatched to qwertysh_cls.
C5_ClsDispatched ==
  /\ pc = "free_line"
  /\ Arg(0) # NULL /\ ArgStr(0) = NameCls
  /\ Arg(1) # NULL
  /\ invoked = "qwertysh_cls"

\* C6: for a line made only of delimiter characters (the empty line
\* included) the token list is just the null sentinel, and qwertysh_execute
\* signals continue, calls no built-in, forks nothing and writes nothing.
C6_DelimiterOnlyLine ==
  OnlyDelims(typed) =>
    /\ pc = "execute" => tokens = <<NULL>>
    /\ pc = "free_line" =>
         /\ status = 1
         /\ invoked = "none"
         /\ pid = 0 /\ children = <<>>
         /\ lastWrite = "prompt"

\* C6 witness: a non-empty line of delimiters ending in a bell has been
\* dispatched.
C6_DelimiterLineDispatched ==
  /\ pc = "free_line"
  /\ Len(typed) = MaxDelimRun /\ OnlyDelims(typed) /\ typed[Len(typed)] = 7
  /\ invoked = "none"

\* the maximal runs of non-delimiter characters of l, left to right
RECURSIVE Runs(_, _)
Runs(l, run) ==
  IF l = <<>> THEN (IF run = <<>> THEN <<>> ELSE <<run>>)
  ELSE IF Head(l) \in DelimChars
    THEN (IF run = <<>> THEN <<>> ELSE <<run>>) \o Runs(Tail(l), <<>>)
    ELSE Runs(Tail(l), Append(run, Head(l)))

\* the strings the returned token array points to, sentinel left out
TokenStrings == [i \in 1..(Len(tokens) - 1) |-> CStr(buffer, tokens[i])]

\* C7: qwertysh_split_line returns exactly the maximal runs of
\* non-delimiter characters of the line, in order, then one null sentinel.
C7_TokensAreMaximalRuns ==
  pc = "execute" =>
    /\ Len(tokens) >= 1
    /\ tokens[Len(tokens)] = NULL
    /\ \A i \in 1..(Len(tokens) - 1) : tokens[i] # NULL
    /\ TokenStrings = Runs(typed, <<>>)

\* C7 witness: "echo  hello   world" has been split into echo, hello, world.
C7_EchoHelloWorld ==
  /\ pc = "execute"
  /\ typed = EchoLine
  /\ Len(tokens) = 4
  /\ TokenStrings = << <<101, 99, 104, 111>>, <<104, 101, 108, 108, 111>>,
                       <<119, 111, 114, 108, 100>> >>

\* the absolute path a cd argument names
CdTarget(dir, path) ==
  IF Head(path) = 47 THEN path
  ELSE IF dir = <<47>> THEN dir \o path ELSE dir \o <<47>> \o path

\* C8: every call of qwertysh_cd signals continue; without a directory
\* argument, or with one that names no directory, it leaves the working
\* directory as it was and reports an error.
C8_CdFailureKeepsDirectory ==
  [][(pc = "execute" /\ invoked' = "qwertysh_cd" /\ pc' = "free_line") =>
       /\ status' = 1
       /\ Arg(1) = NULL =>
            cwd' = cwd /\ lastWrite' = "expected argument to cd"
       /\ (Arg(1) # NULL /\ CdTarget(cwd, ArgStr(1)) \notin ExistingDirs) =>
            cwd' = cwd /\ lastWrite' = "perror"
       /\ (Arg(1) # NULL /\ CdTarget(cwd, ArgStr(1)) \in ExistingDirs) =>
            cwd' = CdTarget(cwd, ArgStr(1))]_vars

\* C8 witness: cd to a path that names no directory has returned.
C8_CdToMissingDirectory ==
  /\ pc = "free_line"
  /\ invoked = "qwertysh_cd"
  /\ Arg(1) # NULL /\ ArgStr(1) = <<47, 120>>
  /\ lastWrite = "perror"
  /\ status = 1

\* C9: every call of qwertysh_cls hands a nonzero signal to the loop.
C9_ClsSignalsContinue ==
  (pc = "free_line" /\ invoked = "qwertysh_cls") => status # 0

\* C10: every write of qwertysh_read_line lands below the capacity, the
\* capacity is 1024 plus 1024 for every 1024 characters stored, and the
\* buffer returned is the whole line followed by the string terminator.
C10_ReadLineWholeLine ==
  /\ ~oob
  /\ pc = "rl_loop" =>
       /\ Len(buffer) = rl_position
       /\ rl_position < rl_bufsize
       /\ rl_bufsize = qwertysh_RL_BUFSIZE * ((rl_position \div qwertysh_RL_BUFSIZE) + 1)
       /\ buffer = SubSeq(typed, 1, rl_position)
  /\ pc = "sl_malloc" =>
       /\ buffer = typed \o <<NUL>>
       /\ Len(buffer) <= rl_bufsize

\* C10 witness: a line one character longer than the initial capacity has
\* been returned, in a buffer grown once.
C10_Returned1025 ==
  /\ pc = "sl_malloc"
  /\ Len(typed) = qwertysh_RL_BUFSIZE + 1
  /\ buffer = typed \o <<NUL>>
  /\ rl_bufsize = 2 * qwertysh_RL_BUFSIZE

\* the stream was at its end on the first read of this iteration
EofAtFirstRead == eof /\ typed = <<>>

\* C11: at end-of-stream on the first read qwertysh_read_line returns the
\* empty string, the token list is just the sentinel, and the loop ends
\* because of it (the signal handed to the loop is "stop").
C11_EofEndsLoop ==
  EofAtFirstRead =>
    /\ pc = "sl_malloc" => buffer = <<NUL>>
    /\ pc = "execute" => tokens = <<NULL>>
    /\ pc = "free_line" => status = 0

\* C12 as stated: whenever the interpreter has terminated, its exit status
\* is success.
C12_AlwaysExitsSuccess ==
  pc = "terminated" => exitCode = EXIT_SUCCESS

\* C12 amended: the interpreter terminates with success exactly when
\* qwertysh_loop has returned; its only other way to terminate is an
\* allocation failure in qwertysh_read_line or qwertysh_split_line, with a
\* failure status after the diagnostic.
C12_ExitStatusByCause ==
  [][(pc # "terminated" /\ pc' = "terminated") =>
       IF pc = "returned"
         THEN exitCode' = EXIT_SUCCESS
         ELSE /\ pc \in {"rl_malloc", "rl_loop", "sl_malloc", "sl_loop"}
              /\ exitCode' = EXIT_FAILURE
              /\ lastWrite' = "allocation error"]_vars

\* C12 witness: the interpreter has terminated with success after exit.
C12_TerminatedAfterExit ==
  /\ pc = "terminated"
  /\ invoked = "qwertysh_exit"
  /\ exitCode = EXIT_SUCCESS

\* C13 as stated: whenever the Token List is allocated, the Command Line is
\* allocated.
C13_TokensNeverOutliveLine ==
  argsAlloc > 0 => lineAlloc > 0

\* C13 amended: the Token List is allocated without the Command Line only
\* between free(line) and free(args), where it is released and not read;
\* everywhere else an allocated Token List has its Command Line allocated.
C13_TokensOutliveLineOnlyBetweenFrees ==
  /\ (argsAlloc > 0 /\ pc # "free_args") => lineAlloc > 0
  /\ pc = "free_args" => (argsAlloc = 1 /\ lineAlloc = 0)

\* C13 witness: qwertysh_execute is about to read tokens that point into a
\* live Command Line.
C13_TokensOverLiveLine ==
  /\ pc = "execute"
  /\ Arg(0) # NULL
  /\ argsAlloc = 1 /\ lineAlloc = 1

\* C14: no child ever runs the interpreter's loop, and a child whose
\* program cannot be executed leaves the "forked" state only by ending:
\* with a failure exit status after reporting, or killed by a signal.
C14_ChildNeverRunsLoop ==
  /\ [](\A p \in DOMAIN children : children[p].st \in {"forked", "image", "zombie"})
  /\ [][\A p \in DOMAIN children :
          (children[p].st = "forked" /\ children[p].prog \notin Programs) =>
            \/ p \notin DOMAIN children'
            \/ children'[p].st = "forked"
            \/ /\ children'[p].st = "zombie"
               /\ \/ /\ children'[p].ws = W_EXITCODE(EXIT_FAILURE, 0)
                     /\ lastWrite' = "perror"
                  \/ WIFSIGNALED(children'[p].ws)]_vars

\* C14 witness: the child of a launch of a missing program has reported
\* and exited with a failure status; the parent has not yet reaped it.
C14_ChildExitedAfterExecFailure ==
  /\ pc = "waitpid"
  /\ pid \in DOMAIN children
  /\ children[pid].st = "zombie"
  /\ children[pid].prog \notin Programs
  /\ children[pid].ws = W_EXITCODE(EXIT_FAILURE, 0)
  /\ lastWrite = "perror"

\* C15: the launcher waits only on a child that fork created, and when
\* fork failed it has reported, created no child, waited on nothing and
\* returned "continue".
C15_ForkFailure ==
  /\ pc = "waitpid" => pid > 0
  /\ (pc = "free_line" /\ invoked = "qwertysh_launch" /\ pid < 0) =>
       /\ status = 1
       /\ lastWrite = "perror"
       /\ children = <<>>
       /\ ~statusSet

\* C15 witness: qwertysh_launch has returned after a failed fork.
C15_ReturnedAfterForkFailure ==
  /\ pc = "free_line"
  /\ invoked = "qwertysh_launch"
  /\ pid = -1
  /\ lastWrite = "perror"

AllocPlaces == {"rl_malloc", "rl_loop", "sl_malloc", "sl_loop"}

\* C16: the allocation diagnostic is written only by a step that ends the
\* interpreter with a failure status, from one of the four allocation
\* places, dispatching nothing; no token buffer is left allocated; and
\* nothing (no retry, no prompt) follows.
C16_AllocationFailureIsFatal ==
  /\ [](lastWrite = "allocation error" =>
          (pc = "terminated" /\ exitCode = EXIT_FAILURE /\ argsAlloc = 0))
  /\ [][(lastWrite' = "allocation error" /\ lastWrite # "allocation error") =>
          /\ pc \in AllocPlaces
          /\ invoked' = invoked /\ children' = children /\ cwd' = cwd]_vars
  /\ [][pc = "terminated" => UNCHANGED << pc, lastWrite, exitCode, status >>]_vars

\* C16 witness: the first growth of the token array has failed; the old
\* token buffer is released and the interpreter has terminated.
C16_TokenGrowthFailed ==
  /\ pc = "terminated"
  /\ lastWrite = "allocation error"
  /\ sl_bufsize = 2 * qwertysh_TOK_BUFSIZE
  /\ sl_position = qwertysh_TOK_BUFSIZE
  /\ argsAlloc = 0 /\ lineAlloc = 1

\* the steps of one iteration, in order
LoopOrder(from, to) ==
  \/ from = to
  \/ to = "terminated" /\ from \in AllocPlaces \cup {"returned"}
  \/ from = "prompt"    /\ to = "rl_malloc"
  \/ from = "rl_malloc" /\ to = "rl_loop"
  \/ from = "rl_loop"   /\ to = "sl_malloc"
  \/ from = "sl_malloc" /\ to = "sl_loop"
  \/ from = "sl_loop"   /\ to = "execute"
  \/ from = "execute"   /\ to \in {"waitpid", "free_line"}
  \/ from = "waitpid"   /\ to = "free_line"
  \/ from = "free_line" /\ to = "free_args"
  \/ from = "free_args" /\ to \in {"prompt", "returned"}

\* C17: the steps of an iteration come in the order prompt, read, tokenize,
\* dispatch, release; each of the two blocks is live exactly from its
\* allocation to its free at the end of the iteration, whatever the signal,
\* so that it is live wherever it is read or written and is freed once.
C17_IterationOrderAndRelease ==
  /\ []( /\ pc \in {"prompt", "rl_malloc", "returned"} =>
              (lineAlloc = 0 /\ argsAlloc = 0)
         /\ pc \in {"rl_loop", "sl_malloc"} => (lineAlloc = 1 /\ argsAlloc = 0)
         /\ pc \in {"sl_loop", "execute", "waitpid", "free_line"} =>
              (lineAlloc = 1 /\ argsAlloc = 1)
         /\ pc = "free_args" => (lineAlloc = 0 /\ argsAlloc = 1) )
  /\ [][LoopOrder(pc, pc')]_vars

\* C17 witness: the loop has been left on "stop" with both blocks released.
C17_ReleasedAfterStop ==
  /\ pc = "returned"
  /\ status = 0
  /\ lineAlloc = 0 /\ argsAlloc = 0

\* C18: the interpreter's working directory changes only in a dispatch of
\* cd whose argument names an existing directory, and then to it.
C18_OnlyCdChangesDirectory ==
  [][cwd' # cwd =>
       /\ pc = "execute"
       /\ Arg(0) # NULL /\ ArgStr(0) = NameCd
       /\ Arg(1) # NULL
       /\ CdTarget(cwd, ArgStr(1)) \in ExistingDirs
       /\ cwd' = CdTarget(cwd, ArgStr(1))]_vars

\* C18 witness: a launched program has changed its own working directory
\* and the interpreter, waiting for it, is where it was.
C18_ChildElsewhere ==
  /\ pc = "waitpid"
  /\ pid \in DOMAIN children
  /\ children[pid].st = "image"
  /\ children[pid].cwd # cwd

\* where the tokens of l start (1-based)
TokenStarts(l) ==
  { i \in 1..Len(l) :
      l[i] \notin DelimChars /\ (i = 1 \/ l[i - 1] \in DelimChars) }

\* C19: the token array has capacity 64 plus 64 for every 64 tokens stored,
\* every token and the sentinel are written below the capacity, and the
\* array returned holds every token of the line, in order, then NULL.
C19_TokenArrayGrowth ==
  /\ ~oob
  /\ pc = "sl_loop" =>
       /\ Len(tokens) = sl_position
       /\ sl_position < sl_bufsize
       /\ sl_bufsize =
            qwertysh_TOK_BUFSIZE * ((sl_position \div qwertysh_TOK_BUFSIZE) + 1)
  /\ pc = "execute" =>
       LET starts == TokenStarts(typed) IN
       /\ Len(tokens) = Cardinality(starts) + 1
       /\ Len(tokens) <= sl_bufsize
       /\ tokens[Len(tokens)] = NULL
       /\ \A k \in 1..(Len(tokens) - 1) :
            /\ tokens[k] + 1 \in starts
            /\ k > 1 => tokens[k - 1] < tokens[k]

\* C19 witness: a line of 128 tokens has been split, in an array grown
\* twice.
C19_Split128 ==
  /\ pc = "execute"
  /\ Len(tokens) = 2 * qwertysh_TOK_BUFSIZE + 1
  /\ sl_bufsize = 3 * qwertysh_TOK_BUFSIZE
  /\ tokens[Len(tokens)] = NULL

\* C20: qwertysh_launch returns only on a status that a waitpid call has
\* stored, and once its child has ended and waitpid has nothing more to
\* deliver, the loop condition lets it return.
C20_WaitUsesWrittenStatus ==
  /\ (pc = "free_line" /\ invoked = "qwertysh_launch" /\ pid > 0) => statusSet
  /\ (pc = "waitpid" /\ pid \notin DOMAIN children) => ~WaitAgain(wstatus)

====
